---- MODULE Spec2Model ----
(***************************************************************************)
(* Model of matchms.networking.SimilarityNetwork: the builder object, its  *)
(* constructor, and create_network, which turns an all-vs-all Scores       *)
(* object into a weighted undirected graph.                                *)
(*                                                                         *)
(* Scores are modelled in tenths (9 stands for 0.9).  An optional value    *)
(* (Python None, or an attribute the object does not have) is a sequence   *)
(* of length 0; a present value v is <<v>>.  Positions are 1-based.        *)
(***************************************************************************)
EXTENDS Integers, Sequences, FiniteSets, TLC

VARIABLES
    top_n,          (* self.top_n, set by __init__                         *)
    max_links,      (* self.max_links, set by __init__                     *)
    score_cutoff,   (* self.score_cutoff, set by __init__                  *)
    cutoff,         (* self.cutoff, read by create_network; optional       *)
    link_method,    (* self.link_method, read by create_network; optional  *)
    graph,          (* self.graph; optional                                *)
    scores,         (* the Scores object the caller holds                  *)
    ignore_self,    (* whether get_top_hits leaves out self-comparisons    *)
    last            (* the last operation: its argument, how it ended and  *)
                    (* the new_edges list of every item it processed       *)

vars == <<top_n, max_links, score_cutoff, cutoff, link_method, graph,
          scores, ignore_self, last>>

(* ---------------------------------------------------------------- bounds *)
MaxItems == 3
MaxN == 2

IdNames == <<"a", "b", "c", "d", "e">>
Levels == {3, 5, 9}
Cutoffs == {3, 7}
LinkMethods == {"single", "mutual", "other"}

(* ------------------------------------------------------------- utilities *)
Range(s) == {s[k] : k \in 1..Len(s)}

Min(a, b) == IF a < b THEN a ELSE b

Max(a, b) == IF a < b THEN b ELSE a

(* Python's s[:k]: the first k elements, or all but the last -k when k < 0 *)
Slice(s, k) == SubSeq(s, 1, IF k >= 0 THEN Min(k, Len(s)) ELSE Max(Len(s) + k, 0))

(* ------------------------------------------------------------ the inputs *)
(* A Scores object: the identifiers of its queries and of its references   *)
(* (s.get(identifier) of each, a string), and the score of every pair.     *)
(* Identifier sequences are taken up to renaming; identifiers may repeat.  *)
IsCanonical(q) == \A k \in 1..Len(q) :
                     \E m \in 1..k : /\ q[k] = IdNames[m]
                                     /\ \A l \in 1..(m - 1) : IdNames[l] \in Range(SubSeq(q, 1, k - 1))

IdSeqs(n) == {q \in [1..n -> Range(SubSeq(IdNames, 1, n))] : IsCanonical(q)}

Pairs(n) == {p \in (1..n) \X (1..n) : p[1] < p[2]}

(* A symmetric matrix; an item scores 1.0 against itself. *)

Matrix(n, up) == [i \in 1..n |-> [j \in 1..n |->
                    IF i = j THEN 10 ELSE up[<<Min(i, j), Max(i, j)>>]]]

AllScores == UNION {{[queries |-> q, references |-> q, scores |-> Matrix(n, up)] :
                       q \in IdSeqs(n), up \in [Pairs(n) -> Levels]} : n \in 0..MaxItems}

(* The same comparison with the first reference missing: queries != references *)
Mismatched(sc) == [queries |-> sc.queries, references |-> Tail(sc.references),
                   scores |-> [i \in 1..Len(sc.queries) |-> Tail(sc.scores[i])]]

Empty == [queries |-> <<>>, references |-> <<>>, scores |-> <<>>]

(* ------------------------------------------------------------- the graph *)
NewGraph == [nodes |-> {}, edges |-> <<>>]

(* Mutant: the nodes are not added up front. *)
add_nodes_from_skipped(g, ids) == g

add_nodes_from(g, ids) == [g EXCEPT !.nodes = g.nodes \cup ids]

add_edge(g, u, v, w) ==
    [nodes |-> g.nodes \cup {u, v},
     edges |-> [p \in DOMAIN g.edges \cup {{u, v}} |->
                  IF p = {u, v} THEN w ELSE g.edges[p]]]

RECURSIVE add_weighted_edges_from(_, _)
add_weighted_edges_from(g, es) ==
    IF es = <<>> THEN g
    ELSE add_weighted_edges_from(add_edge(g, es[1][1], es[1][2], es[1][3]), Tail(es))

(* ---------------------------------------------------------- get_top_hits *)
(* Positions of the candidates of item i, best score first, ties in        *)
(* position order; the item itself is left out when ign.                   *)
RECURSIVE Ranked(_, _, _)
Ranked(row, left, acc) ==
    IF left = {} THEN acc
    ELSE LET best == CHOOSE j \in left :
                        \A k \in left : \/ row[j] > row[k]
                                        \/ (row[j] = row[k] /\ j <= k)
         IN Ranked(row, left \ {best}, Append(acc, best))

TopOf(sc, i, n, ign) ==
    Slice(Ranked(sc.scores[i],
                 {j \in 1..Len(sc.references) : ~ign \/ j # i}, <<>>), n)

(* The dictionaries are keyed by identifier: of two items with the same    *)
(* identifier the later one's entry stays.                                 *)
LastWith(sc, id) == CHOOSE i \in 1..Len(sc.queries) :
                       /\ sc.queries[i] = id
                       /\ \A k \in 1..Len(sc.queries) : sc.queries[k] = id => k <= i

get_top_hits(sc, n, ign) ==
    LET ids == Range(sc.queries)
        idx == [id \in ids |-> TopOf(sc, LastWith(sc, id), n, ign)]
    IN [similars_idx |-> idx,
        similars_scores |-> [id \in ids |->
            [x \in 1..Len(idx[id]) |-> sc.scores[LastWith(sc, id)][idx[id][x]]]]]

(* -------------------------------------------------------- create_network *)
(* ref_candidates: the identifiers of the references at the top positions  *)
(* of identifier q.                                                        *)
ref_candidates(sc, th, q) ==
    [x \in 1..Len(th.similars_idx[q]) |-> sc.references[th.similars_idx[q][x]]]

(* Mutant: the test "candidate != query_id" is missing. *)
PassingIdx_self_kept(sc, th, q, co) ==
    LET Passes(x) == th.similars_scores[q][x] >= co
    IN SelectSeq([x \in 1..Len(th.similars_idx[q]) |-> x], Passes)

(* numpy.where(score >= cutoff and candidate != query_id)[0][:max_links]   *)
PassingIdx(sc, th, q, co) ==
    LET rc == ref_candidates(sc, th, q)
        Passes(x) == th.similars_scores[q][x] >= co /\ rc[x] # q
    IN SelectSeq([x \in 1..Len(rc) |-> x], Passes)

idx(sc, th, q, co, ml) == Slice(PassingIdx(sc, th, q, co), ml)

(* Mutant: every candidate counts as reciprocal. *)
Reciprocal_always(th, i, cand) == TRUE

(* Mutant: the query's position is taken one too low. *)
Reciprocal_off_by_one(th, i, cand) == (i - 1) \in Range(th.similars_idx[cand])

(* "i in similars_idx[candidate]": the query's position is among the top   *)
(* positions of the candidate's identifier.                                *)
Reciprocal(th, i, cand) == i \in Range(th.similars_idx[cand])

(* Mutant: under "mutual" the comprehension runs over every candidate      *)
(* position instead of idx.                                                *)
new_edges_mutual_over_all(sc, th, i, co, ml, lm) ==
    LET q == sc.queries[i]
        rc == ref_candidates(sc, th, q)
        ix == IF lm = "single" THEN idx(sc, th, q, co, ml) ELSE [x \in 1..Len(rc) |-> x]
        all == [k \in 1..Len(ix) |-> <<q, rc[ix[k]], th.similars_scores[q][ix[k]]>>]
        Mutual(e) == Reciprocal(th, i, e[2])
    IN IF lm = "single" THEN all ELSE SelectSeq(all, Mutual)

(* The edges item i proposes.  Identifiers are strings and scores numbers, *)
(* so str() and float() return the value they are given.                   *)
new_edges(sc, th, i, co, ml, lm) ==
    LET q == sc.queries[i]
        rc == ref_candidates(sc, th, q)
        ix == idx(sc, th, q, co, ml)
        all == [k \in 1..Len(ix) |-> <<q, rc[ix[k]], th.similars_scores[q][ix[k]]>>]
        Mutual(e) == Reciprocal(th, i, e[2])
    IN IF lm = "single" THEN all ELSE SelectSeq(all, Mutual)

(* Mutant: the assertion is missing. *)
TopNCoversMaxLinks_unchecked(tn, ml) == TRUE

(* assert self.top_n >= self.max_links *)
TopNCoversMaxLinks(tn, ml) == tn >= ml

Failure(e, g, props) == [err |-> e, msnet |-> g, new_edges |-> props]

RECURSIVE Loop(_, _, _, _, _, _, _, _)
Loop(sc, th, co, ml, lm, i, g, props) ==
    IF i > Len(sc.queries) THEN [err |-> "none", msnet |-> <<g>>, new_edges |-> props]
    ELSE IF co = <<>> THEN Failure("AttributeError: cutoff", <<g>>, props)
    ELSE IF lm = <<>> THEN Failure("AttributeError: link_method", <<g>>, props)
    ELSE IF lm[1] \notin {"single", "mutual"}
         THEN Failure("ValueError: Link method not kown", <<g>>, props)
    ELSE LET ne == new_edges(sc, th, i, co[1], ml, lm[1])
         IN Loop(sc, th, co, ml, lm, i + 1,
                 add_weighted_edges_from(g, ne), Append(props, ne))

(* One pass of create_network over sc, by a builder with these fields:     *)
(* how it ends, the graph msnet it has built by then (none before msnet is *)
(* created), and the new_edges list of every item it has processed.        *)
create_network(tn, ml, co, lm, sc, ign) ==
    IF ~TopNCoversMaxLinks(tn, ml)
    THEN Failure("AssertionError: top_n must be >= max_links", <<>>, <<>>)
    ELSE IF sc.queries # sc.references
    THEN Failure("AssertionError: Expected symmetric scores object", <<>>, <<>>)
    ELSE LET unique_ids == Range(sc.queries)
             msnet == add_nodes_from(NewGraph, unique_ids)
         IN IF tn < 1
            THEN Failure("get_top_hits: invalid top_n", <<msnet>>, <<>>)
            ELSE Loop(sc, get_top_hits(sc, tn, ign), co, ml, lm, 1, msnet, <<>>)

(* Mutant: the graph is stored as soon as it exists, whatever follows. *)
Stored_early(r, old) == IF r.msnet # <<>> THEN r.msnet ELSE old

(* self.graph = msnet is the last statement: it runs only when nothing     *)
(* before it raised.                                                       *)
Stored(r, old) == IF r.err = "none" THEN r.msnet ELSE old

(* ---------------------------------------------------------------- states *)
NoCall == [op |-> "__init__", arg |-> Empty, err |-> "none", new_edges |-> <<>>]

Init ==
    /\ top_n \in 0..MaxN
    /\ max_links \in (0 - 1)..MaxN
    /\ score_cutoff \in Cutoffs
    /\ cutoff = <<>>
    /\ link_method = <<>>
    /\ graph = <<>>
    /\ scores \in AllScores
    /\ ignore_self \in BOOLEAN
    /\ last = NoCall

Args == {scores, Empty} \cup (IF scores.queries # <<>> THEN {Mismatched(scores)} ELSE {})

CreateNetwork ==
    \E arg \in Args :
        LET r == create_network(top_n, max_links, cutoff, link_method, arg, ignore_self)
        IN /\ graph' = Stored(r, graph)
           /\ last' = [op |-> "create_network", arg |-> arg, err |-> r.err,
                       new_edges |-> r.new_edges]
           /\ UNCHANGED <<top_n, max_links, score_cutoff, cutoff, link_method,
                          scores, ignore_self>>

(* The constructor assigns neither self.cutoff nor self.link_method: they  *)
(* exist only once the caller assigns them on the object.                  *)
SetCutoff ==
    \E v \in Cutoffs :
        /\ cutoff # <<v>>
        /\ cutoff' = <<v>>
        /\ last' = [NoCall EXCEPT !.op = "setattr"]
        /\ UNCHANGED <<top_n, max_links, score_cutoff, link_method, graph,
                       scores, ignore_self>>

SetLinkMethod ==
    \E m \in LinkMethods :
        /\ link_method # <<m>>
        /\ link_method' = <<m>>
        /\ last' = [NoCall EXCEPT !.op = "setattr"]
        /\ UNCHANGED <<top_n, max_links, score_cutoff, cutoff, graph,
                       scores, ignore_self>>

Next == CreateNetwork \/ SetCutoff \/ SetLinkMethod

Spec == Init /\ [][Next]_vars

(* ---------------------------------------------------------------- claims *)
LastOK == last.op = "create_network" /\ last.err = "none" /\ graph # <<>>

LastFailed == last.op = "create_network" /\ last.err # "none"

EdgesOf(g) == DOMAIN g.edges

Neighbours(g, c) == {d \in g.nodes : d # c /\ {c, d} \in EdgesOf(g)}

(* The identifiers in the top_n candidate list of identifier c, for the    *)
(* input of the last call.                                                 *)
CandIds(c) ==
    Range(ref_candidates(last.arg, get_top_hits(last.arg, top_n, ignore_self), c))

UniqueIds(sc) == Cardinality(Range(sc.queries)) = Len(sc.queries)

(* The three-item scenario: A-B = 0.9, A-C = 0.5, B-C = 0.3 *)
Scenario == [queries |-> <<"a", "b", "c">>, references |-> <<"a", "b", "c">>,
             scores |-> <<(<<10, 9, 5>>), (<<9, 10, 3>>), (<<5, 3, 10>>)>>]

(* C1: a create_network call that fails leaves the stored graph exactly as *)
(* it was (none if none was built), so the stored graph changes only by a  *)
(* call that succeeds, and then it is a graph over the identifiers of that *)
(* call's input; no partially built graph is ever stored.                  *)
C1_FailedCallKeepsGraph ==
    [][/\ (last'.op = "create_network" /\ last'.err # "none") => graph' = graph
       /\ graph' # graph => /\ last'.op = "create_network"
                            /\ last'.err = "none"
                            /\ graph' # <<>>
                            /\ graph'[1].nodes = Range(last'.arg.queries)]_vars

(* A call on the full input failed after an earlier call had stored a      *)
(* graph with edges: the graph is still there.                             *)
C1_Witness ==
    /\ LastFailed
    /\ last.arg = scores
    /\ last.err = "ValueError: Link method not kown"
    /\ graph # <<>>
    /\ EdgesOf(graph[1]) # {}

(* C2, as claimed: no builder with top_n < max_links exists once the       *)
(* constructor has returned.                                               *)
C2_RejectedAtConstruction == last.op = "__init__" => top_n >= max_links

(* C2, amended: the constructor accepts top_n < max_links; every           *)
(* create_network call on such a builder fails on its first assertion,     *)
(* before any computation, and the builder holds no graph.                 *)
C2_RejectedByCreateNetwork ==
    (last.op = "create_network" /\ top_n < max_links) =>
        /\ last.err = "AssertionError: top_n must be >= max_links"
        /\ last.new_edges = <<>>
        /\ graph = <<>>

C2_Witness ==
    /\ last.op = "create_network"
    /\ top_n < max_links
    /\ last.arg = scores
    /\ Len(scores.queries) = MaxItems
    /\ cutoff # <<>>
    /\ link_method = <<"single">>

(* C3: whatever the input, zero items included, a call whose link_method   *)
(* is not "single" or "mutual" (all other preconditions met) fails with    *)
(* the unsupported-link-method error.                                      *)
C3_UnsupportedLinkMethodFails ==
    (/\ last.op = "create_network"
     /\ top_n >= max_links
     /\ top_n >= 1
     /\ last.arg.queries = last.arg.references
     /\ cutoff # <<>>
     /\ link_method \notin {<<"single">>, <<"mutual">>}) =>
        last.err = "ValueError: Link method not kown"

(* C4: after a successful call the nodes of the stored graph are exactly   *)
(* the distinct identifiers of the input.                                  *)
C4_NodesAreUniqueIds == LastOK => graph[1].nodes = Range(last.arg.queries)

(* Three items, an edge, and an item left without any edge. *)
C4_Witness ==
    /\ LastOK
    /\ Len(last.arg.queries) = 3
    /\ EdgesOf(graph[1]) # {}
    /\ \E c \in graph[1].nodes : Neighbours(graph[1], c) = {}

(* C5: every edge of a graph produced by create_network has a weight of at *)
(* least the score_cutoff given to the constructor.                        *)
C5_EdgesMeetScoreCutoff ==
    LastOK => \A p \in EdgesOf(graph[1]) : graph[1].edges[p] >= score_cutoff

(* C6: no edge of a stored graph joins an identifier to itself, whether or *)
(* not get_top_hits left the item itself out of its candidates.            *)
C6_NoSelfLoops ==
    graph # <<>> => \A p \in EdgesOf(graph[1]) : Cardinality(p) = 2

(* get_top_hits ranked every item first among its own candidates, and the  *)
(* graph has an edge.                                                      *)
C6_Witness ==
    /\ LastOK
    /\ ~ignore_self
    /\ Len(last.arg.queries) = 3
    /\ EdgesOf(graph[1]) # {}

(* C7: under "mutual" each endpoint of an edge is in the top_n candidate   *)
(* list of the other endpoint.                                             *)
C7_MutualEdgesReciprocal ==
    (LastOK /\ link_method = <<"mutual">>) =>
        \A p \in EdgesOf(graph[1]) :
            \A a \in p : \A b \in p : a # b => b \in CandIds(a)

(* The scenario with top_n = max_links = 1 and cutoff 0.3: A-B is the only *)
(* edge, C's proposal to A is dropped.                                     *)
C7_Witness ==
    /\ LastOK
    /\ link_method = <<"mutual">>
    /\ last.arg = Scenario
    /\ top_n = 1
    /\ max_links = 1
    /\ cutoff = <<3>>
    /\ EdgesOf(graph[1]) = {{"a", "b"}}
    /\ graph[1].edges[{"a", "b"}] = 9
    /\ "a" \in CandIds("c")
    /\ "c" \notin CandIds("a")

OtherMethod(sc, lm) ==
    create_network(top_n, max_links, cutoff, <<lm>>, sc, ignore_self).msnet[1]

(* The graphs the two link methods build from the input of the last call, *)
(* one of them being the stored graph.                                     *)
SingleGraph == IF link_method = <<"single">> THEN graph[1]
               ELSE OtherMethod(last.arg, "single")

MutualGraph == IF link_method = <<"mutual">> THEN graph[1]
               ELSE OtherMethod(last.arg, "mutual")

C9_ProposalsWithinMaxLinks ==
    last.op = "create_network" =>
        \A i \in 1..Len(last.new_edges) :
            Len(last.new_edges[i]) <= Max(max_links, 0)

(* C10: under "mutual" with distinct identifiers every neighbour of a node *)
(* is in that node's own top_n candidate list, so no degree exceeds top_n. *)
C10_MutualDegreeWithinTopN ==
    (LastOK /\ link_method = <<"mutual">> /\ UniqueIds(last.arg)) =>
        \A c \in graph[1].nodes :
            /\ Neighbours(graph[1], c) \subseteq CandIds(c)
            /\ Cardinality(Neighbours(graph[1], c)) <= top_n

(* A node whose degree is top_n = 2, above max_links = 1. *)
C10_Witness ==
    /\ LastOK
    /\ link_method = <<"mutual">>
    /\ UniqueIds(last.arg)
    /\ top_n = 2
    /\ max_links = 1
    /\ \E c \in graph[1].nodes : Cardinality(Neighbours(graph[1], c)) = 2

====
